---- MODULE Spec2Model ----
(***************************************************************************)
(* Model of the quiz voice player (src/src/pages/Index.tsx, the component  *)
(* that starts at line 492): the clip store filled by generateAllAudio,    *)
(* the playback sequencer (playQuestionAtIndex, playAudioSequence,         *)
(* finishAndAdvance, stopPlayback, goToPrevious, goToNext, startAutoPlay,  *)
(* the H key handler) and the timers and audio elements they create, and   *)
(* the container assembler (mergeAndDownloadAll, with pcmToWav of          *)
(* src/src/lib/gemini-audio.ts).                                           *)
(*                                                                         *)
(* One action is one run of a handler to completion, together with the     *)
(* render and the ref-syncing effects (lines 513-524) that follow it, so   *)
(* the refs audioItemsRef, currentIndexRef and autoPlayModeRef always      *)
(* equal the state they mirror when the next handler starts.  State        *)
(* updates queued by one handler are applied in call order.                *)
(***************************************************************************)
EXTENDS Integers, Sequences, FiniteSets, TLC

\* Largest batch (number of quiz items) parseJson is given.
MaxItems == 2
\* Most setTimeout callbacks pending at once.
MaxTimers == 2

VARIABLES
  quizData,      \* TRUE once a batch is loaded (quizData !== null)
  audioItems,    \* the clip store: one AudioItem per quiz item (0-based in the code)
  currentIndex,
  isPlaying,
  displayPhase,
  isGenerating,
  allReady,
  autoPlayMode,
  showFooter,
  audioRef,      \* the Audio element audioRef.current refers to (NoAudio when null)
  detached,      \* Audio elements still playing that audioRef no longer refers to
  timeouts,      \* pending setTimeout callbacks, oldest first (all have a 1000 ms delay)
  genI,          \* generateAllAudio: index of the item being fetched, -1 when not running
  genBlobs,      \* generateAllAudio: results of the awaited fetches of item genI so far
  toast,         \* title of the toast raised by the last handler, "" when none
  phaseLog,      \* the values the last handler passed to setDisplayPhase, in call order
  download,      \* the merged file mergeAndDownloadAll last handed to the browser
  lastOp         \* the last handler run (of the sequencer or the pipeline): its name, the item index and clip it was
                 \* about, and autoPlayModeRef.current as it started

vars == <<quizData, audioItems, currentIndex, isPlaying, displayPhase, isGenerating,
          allReady, autoPlayMode, showFooter, audioRef, detached, timeouts,
          genI, genBlobs, toast, phaseLog, download, lastOp>>

----------------------------------------------------------------------------
\* Byte counts.  A merged file can pass 2^32 bytes, so a number n is kept as two
\* halves of 16 bits, n = hi * 2^16 + lo with lo < 2^16.

Half == 2^16

Num(k) == [hi |-> k \div Half, lo |-> k % Half]

Plus(a, b) ==
  [hi |-> a.hi + b.hi + (a.lo + b.lo) \div Half, lo |-> (a.lo + b.lo) % Half]

\* a - b for a >= b
Minus(a, b) ==
  IF a.lo >= b.lo THEN [hi |-> a.hi - b.hi, lo |-> a.lo - b.lo]
                  ELSE [hi |-> a.hi - b.hi - 1, lo |-> a.lo - b.lo + Half]

\* a * k for a small k (a channel count, a sample width in bytes)
Times(a, k) == [hi |-> a.hi * k + (a.lo * k) \div Half, lo |-> (a.lo * k) % Half]

\* DataView.setUint32 / setUint16 store their argument modulo 2^32 / 2^16
\* (little-endian; getUint32 / getUint16 read the stored value back).
setUint32(a) == [hi |-> a.hi % Half, lo |-> a.lo]
setUint16(a) == [hi |-> 0, lo |-> a.lo]

RECURSIVE SumByteLength(_)
\* reduce((sum, buf) => sum + buf.byteLength, 0)
SumByteLength(bufs) ==
  IF bufs = <<>> THEN Num(0)
  ELSE Plus(SumByteLength(SubSeq(bufs, 1, Len(bufs) - 1)), bufs[Len(bufs)].byteLength)

\* An ArrayBuffer of PCM samples: its bytes, named by id, and their count.
PcmData(id, byteLength) == [id |-> id, byteLength |-> byteLength]

\* pcmToWav(pcmData, sampleRate) with the default numChannels = 1 and
\* bitsPerSample = 16: the 44 header bytes field by field, then the samples.
pcmToWav(pcmData, sampleRate) ==
  LET dataSize == pcmData.byteLength
      numChannels == 1
      bitsPerSample == 16
  IN  [kind |-> "wav",
       byteLength |-> Plus(Num(44), dataSize),
       riff |-> "RIFF",
       riffSize |-> setUint32(Plus(Num(36), dataSize)),
       wave |-> "WAVE",
       fmt |-> "fmt ",
       fmtSize |-> setUint32(Num(16)),
       format |-> setUint16(Num(1)),
       numChannels |-> setUint16(Num(numChannels)),
       sampleRate |-> setUint32(sampleRate),
       byteRate |-> setUint32(Times(Times(sampleRate, numChannels), bitsPerSample \div 8)),
       blockAlign |-> setUint16(Num(numChannels * (bitsPerSample \div 8))),
       bitsPerSample |-> setUint16(Num(bitsPerSample)),
       data |-> "data",
       dataSize |-> setUint32(dataSize),
       body |-> <<[offset |-> Num(44), pcm |-> pcmData]>>]

----------------------------------------------------------------------------
\* Values

\* Blob | null.  BLOB is a clip in the runs of the sequencer, where its bytes play no
\* part; the clips the merge reads are pcmToWav containers (ClipBlob).
NULL == [kind |-> "null"]
BLOB == [kind |-> "wav"]

\* type DisplayPhase
Phases == {"question", "answer", "details"}

\* interface AudioItem (the question text plays no part in playback)
AudioItem(status, q, a, d) ==
  [status |-> status, questionAudio |-> q, answerAudio |-> a, detailsAudio |-> d]

PendingItem == AudioItem("pending", NULL, NULL, NULL)

\* audioRef.current === null
NoAudio == [idx |-> -1, clip |-> "none", item |-> PendingItem, st |-> "null"]

\* new Audio(url) followed by play(): the element plays the clip `clip` of the
\* item captured by playAudioSequence's closure.
Audio(item, index, clip) == [idx |-> index, clip |-> clip, item |-> item, st |-> "playing"]


\* audioItems.length and audioItems[i] (undefined when out of range)
Length == Len(audioItems)
HasItem(i) == i >= 0 /\ i < Length
ItemAt(i) == audioItems[i + 1]

\* The refs mirror the state (effects at lines 513-524).
audioItemsRef == audioItems
currentIndexRef == currentIndex
autoPlayModeRef == autoPlayMode

\* The record of a handler run (finishAndAdvance logs index and isAutoPlay itself).
Op(op, idx, clip) == [op |-> op, idx |-> idx, clip |-> clip, auto |-> autoPlayModeRef]

\* const completedCount = audioItems.filter((a) => a.status === "done").length
completedCount == Cardinality({i \in 1..Length : audioItems[i].status = "done"})

\* Mutant of the readiness test: the status is not looked at.
NotReady_IgnoresStatus(i) ==
  \/ ~HasItem(i)
  \/ audioItemsRef[i + 1].questionAudio = NULL

\* (!item || item.status !== "done" || !item.questionAudio)
NotReady(i) ==
  \/ ~HasItem(i)
  \/ audioItemsRef[i + 1].status # "done"
  \/ audioItemsRef[i + 1].questionAudio = NULL

RemoveAt(s, k) == [j \in 1..(Len(s) - 1) |-> IF j < k THEN s[j] ELSE s[j + 1]]

----------------------------------------------------------------------------
\* The session a handler works on, as a record, and its commit at the end.

Cur ==
  [currentIndex |-> currentIndex, isPlaying |-> isPlaying, displayPhase |-> displayPhase,
   autoPlayMode |-> autoPlayMode, showFooter |-> showFooter, audioRef |-> audioRef,
   detached |-> detached, timeouts |-> timeouts, toast |-> "", phaseLog |-> <<>>]

Commit(s, op) ==
  /\ currentIndex' = s.currentIndex
  /\ isPlaying' = s.isPlaying
  /\ displayPhase' = s.displayPhase
  /\ autoPlayMode' = s.autoPlayMode
  /\ showFooter' = s.showFooter
  /\ audioRef' = s.audioRef
  /\ detached' = s.detached
  /\ timeouts' = s.timeouts
  /\ toast' = s.toast
  /\ phaseLog' = s.phaseLog
  /\ lastOp' = op

setDisplayPhase(s, p) == [s EXCEPT !.displayPhase = p, !.phaseLog = Append(@, p)]

\* Mutant of pause: the previous element is not paused.
pause_Skipped(s) == s

\* if (audioRef.current) { audioRef.current.pause(); }
pause(s) == IF s.audioRef.st = "playing" THEN [s EXCEPT !.audioRef.st = "paused"] ELSE s

\* audioRef.current = new Audio(url); audio.play(): an element audioRef referred to
\* that was not paused keeps playing, out of the session's reach.
play(s, a) ==
  [s EXCEPT !.audioRef = a,
            !.detached = IF s.audioRef.st = "playing"
                         THEN Append(s.detached, s.audioRef) ELSE s.detached]

----------------------------------------------------------------------------
\* The sequencer's functions, each from a session record to a session record.

\* Mutant of finishAndAdvance: the last-item test is off by one, so a timeout is
\* scheduled after the last item too.
finishAndAdvance_OffByOne(s, index) ==
  LET s1 == [s EXCEPT !.isPlaying = FALSE]
  IN  IF autoPlayModeRef /\ index <= Len(audioItemsRef) - 1
      THEN [s1 EXCEPT !.timeouts = Append(@, [kind |-> "advance", index |-> index])]
      ELSE IF index >= Len(audioItemsRef) - 1
           THEN [s1 EXCEPT !.autoPlayMode = FALSE, !.toast = "Quiz completed!"]
           ELSE s1

\* Mutant of finishAndAdvance: setIsPlaying(false) is missing.
finishAndAdvance_StaysPlaying(s, index) ==
  IF autoPlayModeRef /\ index < Len(audioItemsRef) - 1
  THEN [s EXCEPT !.timeouts = Append(@, [kind |-> "advance", index |-> index])]
  ELSE IF index >= Len(audioItemsRef) - 1
       THEN [s EXCEPT !.autoPlayMode = FALSE, !.toast = "Quiz completed!"]
       ELSE s

\* Mutant of finishAndAdvance: auto-advance is left enabled after the last item.
finishAndAdvance_KeepsAuto(s, index) ==
  LET s1 == [s EXCEPT !.isPlaying = FALSE]
  IN  IF autoPlayModeRef /\ index < Len(audioItemsRef) - 1
      THEN [s1 EXCEPT !.timeouts = Append(@, [kind |-> "advance", index |-> index])]
      ELSE IF index >= Len(audioItemsRef) - 1
           THEN [s1 EXCEPT !.toast = "Quiz completed!"]
           ELSE s1

\* finishAndAdvance(index): the branch is taken on autoPlayModeRef.current and
\* audioItemsRef.current, the values of the last render.
finishAndAdvance(s, index) ==
  LET s1 == [s EXCEPT !.isPlaying = FALSE]
  IN  IF autoPlayModeRef /\ index < Len(audioItemsRef) - 1
      THEN [s1 EXCEPT !.timeouts = Append(@, [kind |-> "advance", index |-> index])]
      ELSE IF index >= Len(audioItemsRef) - 1
           THEN [s1 EXCEPT !.autoPlayMode = FALSE, !.toast = "Quiz completed!"]
           ELSE s1

\* Mutant of playAudioSequence: the element is created and started but audioRef is
\* not pointed at it.
playAudioSequence_NoHandle(s, item, index) ==
  [s EXCEPT !.detached = Append(@, Audio(item, index, "question"))]

\* playAudioSequence(item, index): creates and starts the question element.
playAudioSequence(s, item, index) == play(s, Audio(item, index, "question"))

\* detailsAudio.onended
detailsEnded(s, e) == finishAndAdvance(s, e.idx)

\* The tail shared by both branches of questionAudio.onended / answerAudio.onended:
\* setDisplayPhase("details"), then the details clip or the finish.
toDetails(s, e) ==
  LET s1 == setDisplayPhase(s, "details")
  IN  IF e.item.detailsAudio = NULL
      THEN finishAndAdvance(s1, e.idx)
      ELSE play(s1, Audio(e.item, e.idx, "details"))

\* Mutant of answerAudio.onended: the details clip is started without
\* setDisplayPhase("details").
answerEnded_NoPhase(s, e) ==
  IF e.item.detailsAudio = NULL
  THEN finishAndAdvance(s, e.idx)
  ELSE play(s, Audio(e.item, e.idx, "details"))

\* answerAudio.onended
answerEnded(s, e) == toDetails(s, e)

\* Mutant of questionAudio.onended: with no answer clip the callback goes straight
\* to the details without setDisplayPhase("answer").
questionEnded_SkipsAnswerPhase(s, e) ==
  IF e.item.answerAudio = NULL
  THEN toDetails(s, e)
  ELSE play(setDisplayPhase(s, "answer"), Audio(e.item, e.idx, "answer"))

\* questionAudio.onended
questionEnded(s, e) ==
  LET s1 == setDisplayPhase(s, "answer")
  IN  IF e.item.answerAudio = NULL
      THEN toDetails(s1, e)
      ELSE play(s1, Audio(e.item, e.idx, "answer"))

\* The onended callback attached to element e.
onended(s, e) ==
  CASE e.clip = "question" -> questionEnded(s, e)
    [] e.clip = "answer"   -> answerEnded(s, e)
    [] OTHER               -> detailsEnded(s, e)

\* Mutant of playQuestionAtIndex: the readiness check comes after the state updates.
playQuestionAtIndex_LateCheck(s, index) ==
  LET s1 == pause(s)
      s2 == [s1 EXCEPT !.currentIndex = index, !.isPlaying = TRUE]
      s3 == setDisplayPhase(s2, "question")
  IN  IF NotReady(index)
      THEN [s3 EXCEPT !.toast = "Audio not ready yet", !.autoPlayMode = FALSE]
      ELSE playAudioSequence(s3, audioItemsRef[index + 1], index)

\* playQuestionAtIndex(index)
playQuestionAtIndex(s, index) ==
  IF NotReady(index)
  THEN [s EXCEPT !.toast = "Audio not ready yet", !.autoPlayMode = FALSE]
  ELSE LET s1 == pause(s)
           s2 == [s1 EXCEPT !.currentIndex = index, !.isPlaying = TRUE]
           s3 == setDisplayPhase(s2, "question")
       IN  playAudioSequence(s3, audioItemsRef[index + 1], index)

\* startAutoPlay(), before its call of playQuestionAtIndex:
\* setAutoPlayMode(true); setShowFooter(false)
enableAutoPlay(s) == [s EXCEPT !.autoPlayMode = TRUE, !.showFooter = FALSE]

\* startAutoPlay().  The H key's timeout runs the closure made when allReady was
\* already true; allReady never goes back to false, so the current value is the same.
startAutoPlay(s) ==
  IF ~allReady
  THEN [s EXCEPT !.toast = "Audio still generating..."]
  ELSE playQuestionAtIndex(enableAutoPlay(s), currentIndexRef)

\* Mutant of stopPlayback: the phase is put back to question, as the navigation
\* does after its stop.
stopPlayback_ResetsPhase(s) ==
  [s EXCEPT !.audioRef = NoAudio, !.isPlaying = FALSE, !.autoPlayMode = FALSE,
            !.displayPhase = "question"]

\* Mutant of stopPlayback: the element is paused but the handle is kept.
stopPlayback_KeepsHandle(s) ==
  [pause(s) EXCEPT !.isPlaying = FALSE, !.autoPlayMode = FALSE]

\* Mutant of stopPlayback: each call also cancels the oldest pending timeout only.
stopPlayback_DropsOneTimer(s) ==
  [s EXCEPT !.audioRef = NoAudio, !.isPlaying = FALSE, !.autoPlayMode = FALSE,
            !.timeouts = IF @ = <<>> THEN @ ELSE Tail(@)]

\* stopPlayback()
stopPlayback(s) ==
  [s EXCEPT !.audioRef = NoAudio, !.isPlaying = FALSE, !.autoPlayMode = FALSE]

\* goToPrevious()
goToPrevious(s) ==
  IF currentIndex > 0
  THEN setDisplayPhase([stopPlayback(s) EXCEPT !.currentIndex = @ - 1], "question")
  ELSE s

\* Mutant of goToNext: the index is moved by two.
goToNext_SkipsOne(s) ==
  IF currentIndex < Length - 1
  THEN setDisplayPhase([stopPlayback(s) EXCEPT !.currentIndex = @ + 2], "question")
  ELSE s

\* Mutant of goToNext: the index and the phase are set without stopPlayback().
goToNext_NoStop(s) ==
  IF currentIndex < Length - 1
  THEN setDisplayPhase([s EXCEPT !.currentIndex = @ + 1], "question")
  ELSE s

\* goToNext()
goToNext(s) ==
  IF currentIndex < Length - 1
  THEN setDisplayPhase([stopPlayback(s) EXCEPT !.currentIndex = @ + 1], "question")
  ELSE s

\* Mutant of the advance callback: it replays the item that finished.
advanceTimeout_SameItem(s, index) ==
  LET nextIndex == index
  IN  IF NotReady(nextIndex)
      THEN [s EXCEPT !.toast = "Audio not ready yet", !.autoPlayMode = FALSE]
      ELSE LET s1 == pause(s)
               s2 == [s1 EXCEPT !.currentIndex = nextIndex, !.isPlaying = TRUE]
               s3 == setDisplayPhase(s2, "question")
           IN  playAudioSequence(s3, audioItemsRef[nextIndex + 1], nextIndex)

\* The setTimeout callback of finishAndAdvance, scheduled for item `index`.
advanceTimeout(s, index) ==
  LET nextIndex == index + 1
  IN  IF NotReady(nextIndex)
      THEN [s EXCEPT !.toast = "Audio not ready yet", !.autoPlayMode = FALSE]
      ELSE LET s1 == pause(s)
               s2 == [s1 EXCEPT !.currentIndex = nextIndex, !.isPlaying = TRUE]
               s3 == setDisplayPhase(s2, "question")
           IN  playAudioSequence(s3, audioItemsRef[nextIndex + 1], nextIndex)

\* handleKeyDown for the H key: collapses the footer and schedules startAutoPlay.
handleKeyDown(s) ==
  [s EXCEPT !.showFooter = FALSE,
            !.timeouts = Append(@, [kind |-> "autoplay", index |-> -1])]

----------------------------------------------------------------------------
\* The generation pipeline.

genVars == <<quizData, audioItems, isGenerating, allReady, genI, genBlobs>>

\* Mutant of the status expression: only the question blob is tested.
GenStatus_QuestionOnly(q, a, d) == IF q # NULL THEN "done" ELSE "error"

\* The status generateAllAudio gives an item from its three blobs.
GenStatus(q, a, d) == IF q # NULL /\ a # NULL /\ d # NULL THEN "done" ELSE "error"

\* Mutant of the first setAudioItems of the loop: the item and every item after it
\* are marked, as if the fetches of all remaining items were started together.
MarkDownloading_Rest(items, i) ==
  [j \in 1..Len(items) |-> IF j >= i + 1 THEN [items[j] EXCEPT !.status = "downloading"]
                                         ELSE items[j]]

\* Mutant of the first setAudioItems of the loop: the item is not marked.
MarkDownloading_Skipped(items, i) == items

\* setAudioItems(prev => prev.map(item => item.index === i ? {...item, status: "downloading"} : item))
MarkDownloading(items, i) ==
  [j \in 1..Len(items) |-> IF j = i + 1 THEN [items[j] EXCEPT !.status = "downloading"]
                                        ELSE items[j]]

\* Mutant of the second setAudioItems of the loop: the result is stored only when
\* the three fetches succeeded.
StoreClips_OnlyOnSuccess(items, i, q, a, d) ==
  [j \in 1..Len(items) |-> IF j = i + 1 /\ GenStatus(q, a, d) = "done"
                           THEN AudioItem("done", q, a, d)
                           ELSE items[j]]

\* setAudioItems(prev => prev.map(item => item.index === i ? {...item, clips, status} : item))
StoreClips(items, i, q, a, d) ==
  [j \in 1..Len(items) |-> IF j = i + 1 THEN AudioItem(GenStatus(q, a, d), q, a, d)
                                        ELSE items[j]]

\* parseJson(): an invalid input only raises a toast; a valid one loads n items and
\* runs generateAllAudio up to its first await (item 0 is marked downloading; with no
\* item the loop is skipped and the function runs to its end).
ParseJson ==
  /\ ~quizData
  /\ UNCHANGED download
  /\ \E valid \in BOOLEAN, n \in 0..MaxItems :
       IF ~valid
       THEN /\ toast' = "Invalid JSON format"
            /\ phaseLog' = <<>>
            /\ lastOp' = Op("parseJson", -1, "none")
            /\ UNCHANGED <<genVars, currentIndex, isPlaying, displayPhase, autoPlayMode,
                           showFooter, audioRef, detached, timeouts>>
       ELSE /\ quizData' = TRUE
            /\ audioItems' = MarkDownloading([j \in 1..n |-> PendingItem], 0)
            /\ isGenerating' = (n > 0)
            /\ allReady' = (n = 0)
            /\ genI' = IF n > 0 THEN 0 ELSE -1
            /\ genBlobs' = <<>>
            /\ Commit([setDisplayPhase([Cur EXCEPT !.currentIndex = 0], "question")
                         EXCEPT !.autoPlayMode = FALSE,
                                !.toast = IF n > 0 THEN "Loaded questions"
                                          ELSE "All audio ready! Press H to start."],
                      Op("parseJson", n, "none"))

\* Mutant of generateAllAudio: setAllReady(true) is called inside the loop, after
\* each stored item.
FetchReturns_ReadyInsideLoop ==
  /\ genI >= 0
  /\ UNCHANGED download
  /\ \E b \in {NULL, BLOB} :
       LET blobs == Append(genBlobs, b)
           stored == StoreClips(audioItems, genI, blobs[1], blobs[2], blobs[3])
           more == genI + 1 < Length
       IN  /\ IF Len(blobs) < 3
              THEN /\ genBlobs' = blobs
                   /\ UNCHANGED <<quizData, audioItems, isGenerating, allReady, genI>>
              ELSE /\ genBlobs' = <<>>
                   /\ audioItems' = IF more THEN MarkDownloading(stored, genI + 1) ELSE stored
                   /\ genI' = IF more THEN genI + 1 ELSE -1
                   /\ isGenerating' = more
                   /\ allReady' = TRUE
                   /\ UNCHANGED quizData
           /\ Commit([Cur EXCEPT !.toast = IF Len(blobs) = 3 /\ ~more
                                           THEN "All audio ready! Press H to start."
                                           ELSE ""],
                     Op("fetchAudioForText", genI, "none"))

\* One awaited fetchAudioForText of generateAllAudio returns (a blob, or null on
\* failure).  After the third the item's clips and status are stored and the loop
\* goes on to the next item, or ends.
FetchReturns ==
  /\ genI >= 0
  /\ UNCHANGED download
  /\ \E b \in {NULL, BLOB} :
       LET blobs == Append(genBlobs, b)
           stored == StoreClips(audioItems, genI, blobs[1], blobs[2], blobs[3])
           more == genI + 1 < Length
       IN  /\ IF Len(blobs) < 3
              THEN /\ genBlobs' = blobs
                   /\ UNCHANGED <<quizData, audioItems, isGenerating, allReady, genI>>
              ELSE /\ genBlobs' = <<>>
                   /\ audioItems' = IF more THEN MarkDownloading(stored, genI + 1) ELSE stored
                   /\ genI' = IF more THEN genI + 1 ELSE -1
                   /\ isGenerating' = more
                   /\ allReady' = ~more
                   /\ UNCHANGED quizData
           /\ Commit([Cur EXCEPT !.toast = IF Len(blobs) = 3 /\ ~more
                                           THEN "All audio ready! Press H to start."
                                           ELSE ""],
                     Op("fetchAudioForText", genI, "none"))

----------------------------------------------------------------------------
\* The container assembler.

\* No file has been handed to the browser.
NoFile == [kind |-> "none"]

\* Mutant of the export filter: the status is not looked at.
IsCompleted_AnyQuestion(a) == a.questionAudio # NULL

IsCompleted(a) == a.status = "done" /\ a.questionAudio # NULL
IsBlob(b) == b # NULL

\* audioItems.filter((a) => a.status === "done" && a.questionAudio)
completed(items) == SelectSeq(items, IsCompleted)

RECURSIVE audiosOf(_)
\* The blobs the two nested loops visit, in order: for each completed item
\* [questionAudio, answerAudio, detailsAudio].filter(Boolean).
audiosOf(items) ==
  IF items = <<>> THEN <<>>
  ELSE LET item == Head(items)
       IN  SelectSeq(<<item.questionAudio, item.answerAudio, item.detailsAudio>>, IsBlob)
             \o audiosOf(Tail(items))

\* Mutant of slice(44): the whole buffer of the clip, header included, is taken as
\* its payload.
slice44_KeepsHeader(blob) == PcmData(blob.body[1].pcm.id, blob.byteLength)

\* (await blob.arrayBuffer()).slice(44): the bytes after the clip's header.  Every
\* clip is a pcmToWav container, whose body is its one run of samples.
slice44(blob) == PcmData(blob.body[1].pcm.id, Minus(blob.byteLength, Num(44)))

\* Mutant of the merged header: the byte rate is written without dividing the
\* sample width by 8.
mergedBuffer_RateInBits(audioDataArray, sampleRate, numChannels, bitsPerSample) ==
  LET totalSize == SumByteLength(audioDataArray)
  IN  [kind |-> "wav",
       byteLength |-> Plus(Num(44), totalSize),
       riff |-> "RIFF",
       riffSize |-> setUint32(Plus(Num(36), totalSize)),
       wave |-> "WAVE",
       fmt |-> "fmt ",
       fmtSize |-> setUint32(Num(16)),
       format |-> setUint16(Num(1)),
       numChannels |-> setUint16(numChannels),
       sampleRate |-> setUint32(sampleRate),
       byteRate |-> setUint32(Times(Times(sampleRate, numChannels.lo),
                                    bitsPerSample.lo)),
       blockAlign |-> setUint16(Num(numChannels.lo * (bitsPerSample.lo \div 8))),
       bitsPerSample |-> setUint16(bitsPerSample),
       data |-> "data",
       dataSize |-> setUint32(totalSize),
       body |-> [k \in 1..Len(audioDataArray) |->
                  [offset |-> Plus(Num(44), SumByteLength(SubSeq(audioDataArray, 1, k - 1))),
                   pcm |-> audioDataArray[k]]]]

\* Mutant of the copy loop: the write offset is not advanced, every payload is
\* written at byte 44.
mergedBuffer_OffsetNotAdvanced(audioDataArray, sampleRate, numChannels, bitsPerSample) ==
  LET totalSize == SumByteLength(audioDataArray)
  IN  [kind |-> "wav",
       byteLength |-> Plus(Num(44), totalSize),
       riff |-> "RIFF",
       riffSize |-> setUint32(Plus(Num(36), totalSize)),
       wave |-> "WAVE",
       fmt |-> "fmt ",
       fmtSize |-> setUint32(Num(16)),
       format |-> setUint16(Num(1)),
       numChannels |-> setUint16(numChannels),
       sampleRate |-> setUint32(sampleRate),
       byteRate |-> setUint32(Times(Times(sampleRate, numChannels.lo),
                                    bitsPerSample.lo \div 8)),
       blockAlign |-> setUint16(Num(numChannels.lo * (bitsPerSample.lo \div 8))),
       bitsPerSample |-> setUint16(bitsPerSample),
       data |-> "data",
       dataSize |-> setUint32(totalSize),
       body |-> [k \in 1..Len(audioDataArray) |->
                  [offset |-> Num(44),
                   pcm |-> audioDataArray[k]]]]

\* The merged container built from the payloads (const totalSize ... to the copy
\* loop): its 44 header bytes field by field and each payload at its offset.
mergedBuffer(audioDataArray, sampleRate, numChannels, bitsPerSample) ==
  LET totalSize == SumByteLength(audioDataArray)
  IN  [kind |-> "wav",
       byteLength |-> Plus(Num(44), totalSize),
       riff |-> "RIFF",
       riffSize |-> setUint32(Plus(Num(36), totalSize)),
       wave |-> "WAVE",
       fmt |-> "fmt ",
       fmtSize |-> setUint32(Num(16)),
       format |-> setUint16(Num(1)),
       numChannels |-> setUint16(numChannels),
       sampleRate |-> setUint32(sampleRate),
       byteRate |-> setUint32(Times(Times(sampleRate, numChannels.lo),
                                    bitsPerSample.lo \div 8)),
       blockAlign |-> setUint16(Num(numChannels.lo * (bitsPerSample.lo \div 8))),
       bitsPerSample |-> setUint16(bitsPerSample),
       data |-> "data",
       dataSize |-> setUint32(totalSize),
       body |-> [k \in 1..Len(audioDataArray) |->
                  [offset |-> Plus(Num(44), SumByteLength(SubSeq(audioDataArray, 1, k - 1))),
                   pcm |-> audioDataArray[k]]]]

\* Mutant of mergeAndDownloadAll: the header is read from every blob, not only
\* while audioDataArray is empty, so the format is that of the last blob.
mergeAndDownloadAll_LastHeader(items) ==
  IF Len(completed(items)) = 0
  THEN [toast |-> "No audio to download", file |-> NoFile]
  ELSE LET audios == audiosOf(completed(items))
           audioDataArray == [k \in 1..Len(audios) |-> slice44(audios[k])]
           last == audios[Len(audios)]
       IN  [toast |-> "Downloaded merged file",
            file |-> mergedBuffer(audioDataArray, last.sampleRate, last.numChannels,
                                  last.bitsPerSample)]

\* Mutant of mergeAndDownloadAll: the early return on an empty selection is
\* missing, the container is built with the default format 24000, 1, 16.
mergeAndDownloadAll_NoEarlyReturn(items) ==
  LET audios == audiosOf(completed(items))
      audioDataArray == [k \in 1..Len(audios) |-> slice44(audios[k])]
  IN  [toast |-> "Downloaded merged file",
       file |-> IF Len(audios) = 0
                THEN mergedBuffer(audioDataArray, Num(24000), Num(1), Num(16))
                ELSE mergedBuffer(audioDataArray, audios[1].sampleRate,
                                  audios[1].numChannels, audios[1].bitsPerSample)]

\* mergeAndDownloadAll() on the clip store `items`: the toast it ends with and the
\* file it hands to the browser.  The sample format is read from the header of the
\* first blob (the defaults 24000, 1, 16 are never used: the list is not empty).
mergeAndDownloadAll(items) ==
  IF Len(completed(items)) = 0
  THEN [toast |-> "No audio to download", file |-> NoFile]
  ELSE LET audios == audiosOf(completed(items))
           audioDataArray == [k \in 1..Len(audios) |-> slice44(audios[k])]
           first == audios[1]
       IN  [toast |-> "Downloaded merged file",
            file |-> mergedBuffer(audioDataArray, first.sampleRate, first.numChannels,
                                  first.bitsPerSample)]

----------------------------------------------------------------------------
\* User input and callbacks.  The buttons are rendered only in the main view
\* (quizData loaded) and inside the footer (showFooter); `disabled` guards them.

\* The footer toggle: onClick={() => setShowFooter(!showFooter)}.  It is no handler of
\* the sequencer: toast, phaseLog and lastOp keep describing the last one.
ToggleFooter ==
  /\ quizData
  /\ showFooter' = ~showFooter
  /\ UNCHANGED <<genVars, currentIndex, isPlaying, displayPhase, autoPlayMode, audioRef,
                 detached, timeouts, toast, phaseLog, download, lastOp>>

\* The previous button: disabled={currentIndex === 0 || isPlaying}
GoToPrevious ==
  /\ quizData /\ showFooter
  /\ ~(currentIndex = 0 \/ isPlaying)
  /\ Commit(goToPrevious(Cur), Op("goToPrevious", -1, "none"))
  /\ UNCHANGED <<genVars, download>>

\* The next button: disabled={currentIndex === audioItems.length - 1 || isPlaying}
GoToNext ==
  /\ quizData /\ showFooter
  /\ ~(currentIndex = Length - 1 \/ isPlaying)
  /\ Commit(goToNext(Cur), Op("goToNext", -1, "none"))
  /\ UNCHANGED <<genVars, download>>

\* The play/pause button: onClick={isPlaying ? stopPlayback : startAutoPlay},
\* disabled={!allReady}
ClickPlayPause ==
  /\ quizData /\ showFooter
  /\ allReady
  /\ IF isPlaying
     THEN Commit(stopPlayback(Cur), Op("stopPlayback", -1, "none"))
     ELSE Commit(startAutoPlay(Cur), Op("startAutoPlay", currentIndexRef, "none"))
  /\ UNCHANGED <<genVars, download>>

\* The H key, when the handler's condition (quizData && allReady && !isPlaying) holds.
PressH ==
  /\ quizData /\ allReady /\ ~isPlaying
  /\ Len(timeouts) < MaxTimers
  /\ Commit(handleKeyDown(Cur), Op("handleKeyDown", -1, "none"))
  /\ UNCHANGED <<genVars, download>>

\* The oldest pending timeout elapses and its callback runs.
TimerElapsed ==
  /\ timeouts # <<>>
  /\ LET t == Head(timeouts)
         s == [Cur EXCEPT !.timeouts = Tail(@)]
     IN  IF t.kind = "advance"
         THEN Commit(advanceTimeout(s, t.index), Op("advanceTimeout", t.index, "none"))
         ELSE Commit(startAutoPlay(s), Op("keyTimeout", currentIndexRef, "none"))
  /\ UNCHANGED <<genVars, download>>

\* Mutant of the ended callbacks: URL.revokeObjectURL releases the clip itself, the
\* entry loses the clip that has just been played.
AudioEnded_ReleasesClip ==
  /\ \E k \in 0..Len(detached) :
       /\ k = 0 => audioRef.st = "playing"
       /\ LET e == IF k = 0 THEN audioRef ELSE detached[k]
              s0 == IF k = 0 THEN [Cur EXCEPT !.audioRef.st = "ended"]
                             ELSE [Cur EXCEPT !.detached = RemoveAt(@, k)]
              s1 == onended(s0, e)
          IN  /\ Len(s1.timeouts) <= MaxTimers
              /\ Commit(s1, Op("onended", e.idx, e.clip))
              /\ audioItems' =
                   [j \in 1..Length |->
                      IF j # e.idx + 1 THEN audioItems[j]
                      ELSE CASE e.clip = "question" -> [audioItems[j] EXCEPT !.questionAudio = NULL]
                             [] e.clip = "answer"   -> [audioItems[j] EXCEPT !.answerAudio = NULL]
                             [] OTHER               -> [audioItems[j] EXCEPT !.detailsAudio = NULL]]
  /\ UNCHANGED <<quizData, isGenerating, allReady, genI, genBlobs, download>>

\* A playing element reaches the end of its clip: it stops and its onended runs.
\* k = 0 is the element audioRef refers to, k > 0 a detached one.
AudioEnded ==
  /\ \E k \in 0..Len(detached) :
       /\ k = 0 => audioRef.st = "playing"
       /\ LET e == IF k = 0 THEN audioRef ELSE detached[k]
              s0 == IF k = 0 THEN [Cur EXCEPT !.audioRef.st = "ended"]
                             ELSE [Cur EXCEPT !.detached = RemoveAt(@, k)]
              s1 == onended(s0, e)
          IN  /\ Len(s1.timeouts) <= MaxTimers
              /\ Commit(s1, Op("onended", e.idx, e.clip))
  /\ UNCHANGED <<genVars, download>>

\* Mutant of the export: the header is cut off the stored clips themselves (slice
\* replaced by an operation in place), every merged clip is left 44 bytes shorter.
MergeAndDownloadAll_CutsInPlace ==
  /\ quizData /\ showFooter
  /\ completedCount # 0
  /\ LET r == mergeAndDownloadAll(audioItems)
     IN  /\ download' = IF r.file = NoFile THEN download ELSE r.file
         /\ toast' = r.toast
  /\ audioItems' =
       [j \in 1..Length |->
          IF IsCompleted(audioItems[j])
          THEN [audioItems[j] EXCEPT !.questionAudio.byteLength = Minus(@, Num(44)),
                                     !.answerAudio.byteLength = Minus(@, Num(44)),
                                     !.detailsAudio.byteLength = Minus(@, Num(44))]
          ELSE audioItems[j]]
  /\ phaseLog' = <<>>
  /\ lastOp' = Op("mergeAndDownloadAll", -1, "none")
  /\ UNCHANGED <<quizData, isGenerating, allReady, genI, genBlobs, currentIndex, isPlaying,
                 displayPhase, autoPlayMode, showFooter, audioRef, detached, timeouts>>

\* The download button: disabled={completedCount === 0}.  The items are those of the
\* render the click happened in.  The handler reads the clip store and writes nothing
\* of the session or the store; it is run on the stores of InitMerge (SpecMerge).
MergeAndDownloadAll ==
  /\ quizData /\ showFooter
  /\ completedCount # 0
  /\ LET r == mergeAndDownloadAll(audioItems)
     IN  /\ download' = IF r.file = NoFile THEN download ELSE r.file
         /\ toast' = r.toast
  /\ phaseLog' = <<>>
  /\ lastOp' = Op("mergeAndDownloadAll", -1, "none")
  /\ UNCHANGED <<genVars, currentIndex, isPlaying, displayPhase, autoPlayMode, showFooter,
                 audioRef, detached, timeouts>>

----------------------------------------------------------------------------
\* The component as mounted: the JSON input view, nothing loaded.
Init ==
  /\ quizData = FALSE
  /\ audioItems = <<>>
  /\ currentIndex = 0
  /\ isPlaying = FALSE
  /\ displayPhase = "question"
  /\ isGenerating = FALSE
  /\ allReady = FALSE
  /\ autoPlayMode = FALSE
  /\ showFooter = TRUE
  /\ audioRef = NoAudio
  /\ detached = <<>>
  /\ timeouts = <<>>
  /\ genI = -1
  /\ genBlobs = <<>>
  /\ toast = ""
  /\ phaseLog = <<>>
  /\ download = NoFile
  /\ lastOp = [op |-> "mount", idx |-> -1, clip |-> "none", auto |-> FALSE]

Next ==
  \/ ParseJson
  \/ FetchReturns
  \/ ToggleFooter
  \/ GoToPrevious
  \/ GoToNext
  \/ ClickPlayPause
  \/ PressH
  \/ TimerElapsed
  \/ AudioEnded

Spec == Init /\ [][Next]_vars

----------------------------------------------------------------------------
\* Fairness: a playing clip reaches its end and a pending timeout elapses.
Fairness == WF_vars(AudioEnded) /\ WF_vars(TimerElapsed)

SpecLive == Spec /\ Fairness

\* A run in which the user starts playback once, as soon as generation has ended,
\* and then leaves the player alone.
StartOnce ==
  /\ lastOp.op \in {"parseJson", "fetchAudioForText"}
  /\ ~isPlaying
  /\ ClickPlayPause

NextAutoRun ==
  \/ ParseJson
  \/ FetchReturns
  \/ StartOnce
  \/ TimerElapsed
  \/ AudioEnded

SpecAutoRun == Init /\ [][NextAutoRun]_vars /\ Fairness

\* playAudioSequence and its callbacks applied to any AudioItem of the declared type
\* that passes playQuestionAtIndex's check: the answer and details clips may each be
\* null.  (generateAllAudio never stores such an item as "done".)
InitAnyClips ==
  /\ quizData = TRUE
  /\ \E n \in 1..MaxItems :
       audioItems \in [1..n -> {AudioItem("done", BLOB, a, d) : a, d \in {NULL, BLOB}}]
  /\ currentIndex = 0
  /\ isPlaying = FALSE
  /\ displayPhase = "question"
  /\ isGenerating = FALSE
  /\ allReady = TRUE
  /\ autoPlayMode = FALSE
  /\ showFooter = TRUE
  /\ audioRef = NoAudio
  /\ detached = <<>>
  /\ timeouts = <<>>
  /\ genI = -1
  /\ genBlobs = <<>>
  /\ toast = ""
  /\ phaseLog = <<>>
  /\ download = NoFile
  /\ lastOp = [op |-> "mount", idx |-> -1, clip |-> "none", auto |-> FALSE]

NextPlayback ==
  \/ ToggleFooter
  \/ GoToPrevious
  \/ GoToNext
  \/ ClickPlayPause
  \/ PressH
  \/ TimerElapsed
  \/ AudioEnded

SpecAnyClips == InitAnyClips /\ [][NextPlayback]_vars

\* The payload sizes a clip is given: one sample byte, and the most bytes one
\* base64 string decodes to (atob returns a string, of at most 2^30 - 2 characters).
ClipSizes == {Num(1), Num(2^30 - 2)}

\* The sample rates the service's mimeType declares (rate=...; 24000 when absent).
ClipRates == {Num(24000), Num(48000)}

\* The clip generateAllAudio stores for phase `clip` of item i (0-based) when
\* fetchAudioForText returns size bytes of samples at sample rate `rate`, or null.
ClipBlob(i, clip, size, rate) ==
  IF size = NULL THEN NULL ELSE pcmToWav(PcmData(<<i, clip>>, size), rate)

\* mergeAndDownloadAll applied to any clip store generateAllAudio can leave behind:
\* 1..MaxItems items, each fetch either failed or returned a clip of one of the sizes,
\* the clips of one item at one of the rates.
InitMerge ==
  /\ quizData = TRUE
  /\ \E n \in 1..MaxItems :
       \E f \in [1..n -> [q : ClipSizes \cup {NULL}, a : ClipSizes \cup {NULL},
                          d : ClipSizes \cup {NULL}, rate : ClipRates]] :
         audioItems = [i \in 1..n |->
                         LET q == ClipBlob(i - 1, "question", f[i].q, f[i].rate)
                             a == ClipBlob(i - 1, "answer", f[i].a, f[i].rate)
                             d == ClipBlob(i - 1, "details", f[i].d, f[i].rate)
                         IN  AudioItem(GenStatus(q, a, d), q, a, d)]
  /\ currentIndex = 0
  /\ isPlaying = FALSE
  /\ displayPhase = "question"
  /\ isGenerating = FALSE
  /\ allReady = TRUE
  /\ autoPlayMode = FALSE
  /\ showFooter = TRUE
  /\ audioRef = NoAudio
  /\ detached = <<>>
  /\ timeouts = <<>>
  /\ genI = -1
  /\ genBlobs = <<>>
  /\ toast = "All audio ready! Press H to start."
  /\ phaseLog = <<>>
  /\ download = NoFile
  /\ lastOp = [op |-> "fetchAudioForText", idx |-> Length - 1, clip |-> "none", auto |-> FALSE]

NextMerge == MergeAndDownloadAll

SpecMerge == InitMerge /\ [][NextMerge]_vars

\* The handler mergeAndDownloadAll run on any of these stores, whatever the state of
\* the button that calls it.
InvokeMerge ==
  /\ LET r == mergeAndDownloadAll(audioItems)
     IN  /\ download' = IF r.file = NoFile THEN download ELSE r.file
         /\ toast' = r.toast
  /\ phaseLog' = <<>>
  /\ lastOp' = Op("mergeAndDownloadAll", -1, "none")
  /\ UNCHANGED <<genVars, currentIndex, isPlaying, displayPhase, autoPlayMode, showFooter,
                 audioRef, detached, timeouts>>

SpecMergeCall == InitMerge /\ [][InvokeMerge]_vars

\* The payload sizes and sample rates of the clips of one-clip items.
PcmSizes == {Num(1), Num(2), Num(44), Num(65536), Num(2^30 - 2)}
PcmRates == {Num(8000), Num(24000), Num(44100), Num(48000)}

\* The stores of the revision in which an item has one clip (audioBlob, stored with
\* status "done" when the fetch returned it): 1..MaxItems ready items whose only
\* clip is pcmToWav of a payload.  The clip is kept in questionAudio; the item has
\* no answer and no details clip.
InitSingleClips ==
  /\ quizData = TRUE
  /\ \E n \in 1..MaxItems :
       \E f \in [1..n -> [size : PcmSizes, rate : PcmRates]] :
         audioItems = [i \in 1..n |->
                         AudioItem("done",
                                   pcmToWav(PcmData(<<i - 1, "question">>, f[i].size), f[i].rate),
                                   NULL, NULL)]
  /\ currentIndex = 0
  /\ isPlaying = FALSE
  /\ displayPhase = "question"
  /\ isGenerating = FALSE
  /\ allReady = TRUE
  /\ autoPlayMode = FALSE
  /\ showFooter = TRUE
  /\ audioRef = NoAudio
  /\ detached = <<>>
  /\ timeouts = <<>>
  /\ genI = -1
  /\ genBlobs = <<>>
  /\ toast = "Generation complete!"
  /\ phaseLog = <<>>
  /\ download = NoFile
  /\ lastOp = [op |-> "fetchAudioForText", idx |-> Length - 1, clip |-> "none", auto |-> FALSE]

SpecSingleClips == InitSingleClips /\ [][NextMerge]_vars

\* The export next to the sequencer: a finished store of one-byte clips in which
\* each item is ready or failed on its answer clip, played, stopped and navigated
\* while the download button is pressed.
InitMergePlay ==
  /\ quizData = TRUE
  /\ \E n \in 1..MaxItems :
       \E f \in [1..n -> BOOLEAN] :
         audioItems = [i \in 1..n |->
                         LET q == ClipBlob(i - 1, "question", Num(1), Num(24000))
                             a == ClipBlob(i - 1, "answer", IF f[i] THEN Num(1) ELSE NULL,
                                           Num(24000))
                             d == ClipBlob(i - 1, "details", Num(1), Num(24000))
                         IN  AudioItem(GenStatus(q, a, d), q, a, d)]
  /\ currentIndex = 0
  /\ isPlaying = FALSE
  /\ displayPhase = "question"
  /\ isGenerating = FALSE
  /\ allReady = TRUE
  /\ autoPlayMode = FALSE
  /\ showFooter = TRUE
  /\ audioRef = NoAudio
  /\ detached = <<>>
  /\ timeouts = <<>>
  /\ genI = -1
  /\ genBlobs = <<>>
  /\ toast = "All audio ready! Press H to start."
  /\ phaseLog = <<>>
  /\ download = NoFile
  /\ lastOp = [op |-> "fetchAudioForText", idx |-> Length - 1, clip |-> "none", auto |-> FALSE]

NextMergePlay == NextPlayback \/ MergeAndDownloadAll

SpecMergePlay == InitMergePlay /\ [][NextMergePlay]_vars

\* Fairness of the pipeline: every awaited fetchAudioForText settles (it catches its
\* errors and returns null).
SpecGenLive == Spec /\ WF_vars(FetchReturns)

----------------------------------------------------------------------------
\* Vocabulary of the properties.

\* The number of Audio elements that are sounding.
NumPlaying == (IF audioRef.st = "playing" THEN 1 ELSE 0) + Len(detached)

Rank(p) == CASE p = "question" -> 1 [] p = "answer" -> 2 [] p = "details" -> 3 [] OTHER -> 0

\* The session fields of the spec's Playback Session.
session == <<currentIndex, displayPhase, isPlaying, autoPlayMode, audioRef, detached>>

\* The last handler was playQuestionAtIndex (reached through startAutoPlay, from the
\* play button or from the H key's timeout) and it found the item not ready / ready.
PlayRefused ==
  lastOp.op \in {"startAutoPlay", "keyTimeout"} /\ toast = "Audio not ready yet"
PlayStarted ==
  lastOp.op \in {"startAutoPlay", "keyTimeout"} /\ toast = ""

\* stopPlayback has just run: from the pause button, or inside goToPrevious/goToNext.
StopRan ==
  \/ lastOp.op = "stopPlayback"
  \/ lastOp.op \in {"goToPrevious", "goToNext"} /\ phaseLog # <<>>

AdvancePending == \E k \in 1..Len(timeouts) : timeouts[k].kind = "advance"

----------------------------------------------------------------------------
\* C1: when stop() is called while an auto-advance is pending, the advance is
\* cancelled: the timer that elapses right after the stop creates no audio and leaves
\* the index, the phase and the playing flag as the stop left them.
C1_StopCancelsPendingAdvance ==
  [][(lastOp.op = "stopPlayback" /\ lastOp'.op = "advanceTimeout")
       => /\ UNCHANGED <<currentIndex, displayPhase, isPlaying>>
          /\ NumPlaying' = 0]_vars

\* C2: right after stop() no audio element is sounding, the session holds no audio
\* handle, playing is false and auto-advance is disabled, whatever phase it ran in.
C2_AfterStop ==
  StopRan => /\ NumPlaying = 0
             /\ audioRef = NoAudio
             /\ ~isPlaying
             /\ ~autoPlayMode

\* stop() ran in the middle of the answer phase (and in C2's other phases alike).
C2_Witness ==
  /\ lastOp.op = "stopPlayback"
  /\ displayPhase = "answer"
  /\ lastOp.auto

\* C3: at most one audio element is sounding in every reachable state, and no element
\* is ever left sounding behind a newer one (each creation follows the release of the
\* previous element).
C3_OneAudio == NumPlaying <= 1 /\ detached = <<>>

\* A delayed H-key start has created an element while an advance was still pending.
C3_Witness ==
  /\ lastOp.op = "keyTimeout"
  /\ audioRef.st = "playing"
  /\ AdvancePending

\* The play button would call startAutoPlay, and so playItem, on an entry that is
\* out of range, not ready or without a question clip.
RefusedPlayDue == quizData /\ showFooter /\ allReady /\ ~isPlaying /\ NotReady(currentIndexRef)

\* The fields other than auto-advance are the same in sessions r and s.
SameButAuto(r, s) ==
  /\ r.currentIndex = s.currentIndex
  /\ r.displayPhase = s.displayPhase
  /\ r.isPlaying = s.isPlaying
  /\ r.audioRef = s.audioRef
  /\ r.detached = s.detached

C5_PlayItem ==
  PlayStarted => /\ currentIndex = lastOp.idx
                 /\ displayPhase = "question"
                 /\ isPlaying
                 /\ audioRef = Audio(ItemAt(lastOp.idx), lastOp.idx, "question")
                 /\ NumPlaying = 1

\* playItem succeeded on the second item, from an idle session showing its details.
C5_Witness ==
  /\ PlayStarted
  /\ currentIndex = 1
  /\ lastOp.op = "startAutoPlay"

\* C6: within one playItem the phase moves question -> answer -> details -> finished,
\* one step per clip-finished event and never backwards (a change to question is a
\* new playItem or a navigation), and the clip of a later phase starts only in the
\* callback of the previous clip's end, as the only element sounding.
C6_PhaseOrder ==
  [][/\ (displayPhase' # displayPhase) =>
          \/ /\ displayPhase' = "question"
             /\ lastOp'.op \in {"startAutoPlay", "keyTimeout", "advanceTimeout",
                                "goToPrevious", "goToNext", "parseJson"}
          \/ /\ lastOp'.op = "onended"
             /\ lastOp'.clip = displayPhase
             /\ Rank(displayPhase') = Rank(displayPhase) + 1
     /\ (lastOp'.op = "onended" /\ lastOp'.clip # "details") =>
          /\ Rank(displayPhase') = Rank(lastOp'.clip) + 1
          /\ audioRef' = Audio(ItemAt(lastOp'.idx), lastOp'.idx, displayPhase')
     /\ (lastOp'.op = "onended" /\ lastOp'.clip = "details") =>
          /\ displayPhase' = "details"
          /\ ~isPlaying'
          /\ NumPlaying' = 0
     /\ (audioRef' # audioRef /\ audioRef'.st = "playing" /\ audioRef'.clip # "question") =>
          /\ lastOp'.op = "onended"
          /\ lastOp'.idx = audioRef'.idx
          /\ Rank(audioRef'.clip) = Rank(lastOp'.clip) + 1
          /\ NumPlaying' = 1
    ]_vars

\* The answer clip has ended and the details clip of the same item has started.
C6_Witness ==
  /\ lastOp.op = "onended"
  /\ lastOp.clip = "answer"
  /\ displayPhase = "details"
  /\ audioRef = Audio(ItemAt(lastOp.idx), lastOp.idx, "details")

\* C7: when the question clip ends and the item has no answer clip, the phase is
\* still set to answer and then to details, in that order, and no answer element is
\* created; the details clip then plays, or the item finishes when it is absent too.
C7_AbsentAnswer ==
  (/\ lastOp.op = "onended"
   /\ lastOp.clip = "question"
   /\ ItemAt(lastOp.idx).answerAudio = NULL)
    => /\ phaseLog = <<"answer", "details">>
       /\ displayPhase = "details"
       /\ IF ItemAt(lastOp.idx).detailsAudio = NULL
          THEN ~isPlaying /\ NumPlaying = 0 /\ audioRef.clip = "question"
          ELSE /\ isPlaying
               /\ NumPlaying = 1
               /\ audioRef = Audio(ItemAt(lastOp.idx), lastOp.idx, "details")

\* The question clip of an item without answer clip has ended and its details play.
C7_Witness ==
  /\ lastOp.op = "onended"
  /\ lastOp.clip = "question"
  /\ ItemAt(lastOp.idx).answerAudio = NULL
  /\ ItemAt(lastOp.idx).detailsAudio # NULL
  /\ audioRef.clip = "details"
  /\ audioRef.st = "playing"

\* C8: auto-advance never goes beyond the last item: when the last item's details
\* end with auto-advance enabled no timeout is scheduled, auto-advance goes from
\* enabled to disabled in that step and the index stays at the last item; no pending
\* advance and no element is ever for an item past the last.
C8_LastItem ==
  [][/\ (lastOp'.op = "onended" /\ lastOp'.clip = "details"
          /\ lastOp'.idx = Length - 1 /\ autoPlayMode) =>
          /\ timeouts' = timeouts
          /\ ~autoPlayMode'
          /\ ~isPlaying'
          /\ currentIndex = Length - 1
          /\ currentIndex' = Length - 1
          /\ toast' = "Quiz completed!"
     /\ \A k \in 1..Len(timeouts') :
          timeouts'[k].kind = "advance" => timeouts'[k].index + 1 <= Length - 1
     /\ audioRef'.idx <= Length - 1
     /\ currentIndex' <= IF Length = 0 THEN 0 ELSE Length - 1
    ]_vars

\* The details of the last of two items have ended in auto-play, reached by the
\* advance from the first item.
C8_Witness ==
  /\ lastOp = [op |-> "onended", idx |-> 1, clip |-> "details", auto |-> TRUE]
  /\ Length = 2
  /\ ~autoPlayMode
  /\ timeouts = <<>>

\* The state right after item i's details ended with auto-advance enabled, i not the
\* last item and item i+1 ready.
AdvanceDue(i) ==
  /\ lastOp = [op |-> "onended", idx |-> i, clip |-> "details", auto |-> TRUE]
  /\ i < Length - 1
  /\ ~NotReady(i + 1)

\* Item i is playing from its question clip.
PlayingQuestion(i) ==
  /\ currentIndex = i
  /\ displayPhase = "question"
  /\ isPlaying
  /\ audioRef = Audio(ItemAt(i), i, "question")
  /\ NumPlaying = 1

\* The last handler was started by the user (play/pause, navigation, H key).
UserActed ==
  lastOp.op \in {"startAutoPlay", "stopPlayback", "goToPrevious", "goToNext",
                 "handleKeyDown", "keyTimeout"}

\* C9: after item i's details end with auto-advance enabled, i not last and item i+1
\* ready, the session reaches index i+1, phase question, playing item i+1's question
\* clip, unless the user acts first (fairness: the timeout elapses).
C9_AutoAdvance ==
  \A i \in 0..(MaxItems - 2) : AdvanceDue(i) ~> (PlayingQuestion(i + 1) \/ UserActed)

\* The advance callback has started the next item.
C9_Witness ==
  /\ lastOp.op = "advanceTimeout"
  /\ PlayingQuestion(lastOp.idx + 1)

\* Every item of a non-empty batch is ready.
AllDone == Length >= 1 /\ \A i \in 1..Length : audioItems[i].status = "done"

\* Idle for good at the last item, whose details were the last clip played.
FinalIdle ==
  /\ currentIndex = Length - 1
  /\ displayPhase = "details"
  /\ ~isPlaying
  /\ ~autoPlayMode
  /\ NumPlaying = 0
  /\ timeouts = <<>>
  /\ audioRef.idx = Length - 1 /\ audioRef.clip = "details" /\ audioRef.st = "ended"

\* The element created by a step is the successor, in playing order, of the one
\* before it: question of item 0 first, then answer, details, question of the next.
NextInOrder(a, b) ==
  CASE a.st = "null"       -> b.idx = 0 /\ b.clip = "question"
    [] a.clip = "question" -> b.idx = a.idx /\ b.clip = "answer"
    [] a.clip = "answer"   -> b.idx = a.idx /\ b.clip = "details"
    [] OTHER               -> b.idx = a.idx + 1 /\ b.clip = "question"

\* C10: with all N items ready, startAutoPlay at index 0 and no further user action,
\* the items are played in index order, each question -> answer -> details, and the
\* session ends idle for good at index N-1, not playing, auto-advance disabled.
C10_FullRun ==
  /\ [][(audioRef' # audioRef /\ audioRef'.st = "playing")
          => NextInOrder(audioRef, audioRef')]_vars
  /\ (AllDone /\ lastOp.op = "startAutoPlay") ~> []FinalIdle

\* The run has ended at the last of two items.
C10_Witness ==
  /\ AllDone
  /\ Length = 2
  /\ FinalIdle

----------------------------------------------------------------------------
\* Item i's details have just ended while auto-advance was disabled.
FinishedIdle ==
  lastOp.op = "onended" /\ lastOp.clip = "details" /\ ~lastOp.auto

\* The handlers that carry out a play request of the user: the play button and the
\* H key's delayed start.
PlayRequest == {"startAutoPlay", "keyTimeout"}

\* C11: when an item's details end while auto-advance is disabled the session goes
\* idle at that item (not playing, index unchanged, no timeout scheduled, nothing
\* sounding), and the next handler starts playback only if it is a play request.
C11_IdleAfterFinish ==
  [][/\ FinishedIdle' => /\ ~isPlaying'
                         /\ currentIndex' = currentIndex
                         /\ timeouts' = timeouts
                         /\ NumPlaying' = 0
     /\ (FinishedIdle /\ isPlaying') => lastOp'.op \in PlayRequest
    ]_vars

\* An item's details clip has just ended (detail -> finish).
DetailsFinished == lastOp.op = "onended" /\ lastOp.clip = "details"

\* C12: at detail -> finish the audio element is released, so that the session
\* holds no audio handle, and playing is false.
C12_HandleReleased ==
  DetailsFinished => audioRef = NoAudio /\ ~isPlaying

\* The session state of record s: index, phase, playing, auto-advance, the audio
\* handle (with any element left sounding) and the pending timers.
SessionOf(s) ==
  <<s.currentIndex, s.displayPhase, s.isPlaying, s.autoPlayMode, s.audioRef,
    s.detached, s.timeouts>>

\* C13: stop() is idempotent: from every reachable state stop() run twice in a row
\* leaves the same session state as stop() run once, and a stop() run on the state a
\* stop() has just left changes nothing.
C13_StopIdempotent ==
  /\ SessionOf(stopPlayback(stopPlayback(Cur))) = SessionOf(stopPlayback(Cur))
  /\ StopRan => SessionOf(stopPlayback(Cur)) = SessionOf(Cur)

\* stop() has run during the details of an item while two timeouts were pending.
C13_Witness ==
  /\ lastOp.op = "stopPlayback"
  /\ displayPhase = "details"
  /\ Len(timeouts) = 2

\* A batch is loaded and nothing is playing: the states navigation is valid in.
NavValid == quizData /\ Length >= 1 /\ ~isPlaying

\* Session r is stopped at index i, showing the question.
StoppedAt(r, i) ==
  /\ r.currentIndex = i
  /\ r.displayPhase = "question"
  /\ ~r.isPlaying
  /\ ~r.autoPlayMode
  /\ r.audioRef = NoAudio

ClampIndex(i) == IF i < 0 THEN 0 ELSE IF i > Length - 1 THEN Length - 1 ELSE i

\* C14 as claimed: goToPrevious()/goToNext() from any not-playing state stop and
\* leave index -1/+1 clamped to [0, N-1], phase question, playing false and
\* auto-advance disabled, also when the index is already at the boundary.
C14_NavAlwaysStops ==
  NavValid => /\ StoppedAt(goToPrevious(Cur), ClampIndex(currentIndex - 1))
              /\ StoppedAt(goToNext(Cur), ClampIndex(currentIndex + 1))

\* The step is a run of navigation handler op (the footer toggle keeps lastOp).
NavStep(op) == lastOp'.op = op /\ showFooter' = showFooter

\* C14 as amended: away from the boundary goToPrevious()/goToNext() stop and leave
\* index -1/+1, phase question, playing false, auto-advance disabled and no handle;
\* at the boundary (0 for previous, N-1 for next) the call does nothing at all, and
\* its button is disabled there, so every navigation step of a non-empty batch moves
\* the index (with an empty batch the next button is enabled and does nothing).
C14_NavStopsInsideRange ==
  /\ [](NavValid =>
          /\ IF currentIndex > 0
             THEN StoppedAt(goToPrevious(Cur), currentIndex - 1)
             ELSE SessionOf(goToPrevious(Cur)) = SessionOf(Cur)
          /\ IF currentIndex < Length - 1
             THEN StoppedAt(goToNext(Cur), currentIndex + 1)
             ELSE SessionOf(goToNext(Cur)) = SessionOf(Cur))
  /\ [][/\ NavStep("goToPrevious") =>
             /\ ~isPlaying /\ currentIndex > 0
             /\ currentIndex' = currentIndex - 1
             /\ displayPhase' = "question" /\ ~isPlaying' /\ ~autoPlayMode'
             /\ audioRef' = NoAudio /\ NumPlaying' = 0
        /\ NavStep("goToNext") =>
             /\ ~isPlaying
             /\ IF currentIndex < Length - 1
                THEN /\ currentIndex' = currentIndex + 1
                     /\ displayPhase' = "question" /\ ~isPlaying' /\ ~autoPlayMode'
                     /\ audioRef' = NoAudio /\ NumPlaying' = 0
                ELSE /\ Length = 0
                     /\ UNCHANGED <<currentIndex, displayPhase, isPlaying, autoPlayMode,
                                    audioRef, detached, timeouts>>
       ]_vars

\* goToNext has moved to the second item from a finished first item whose
\* auto-advance was still enabled.
C14_Witness ==
  /\ lastOp.op = "goToNext"
  /\ lastOp.auto
  /\ currentIndex = 1
  /\ ~autoPlayMode
  /\ displayPhase = "question"

\* The last handler run was a navigation.
NavRan == lastOp.op \in {"goToPrevious", "goToNext"}

\* C15: after goToPrevious()/goToNext() no playback starts and the index does not
\* change until the user presses play or navigates again: the handler that follows a
\* navigation and starts an element or moves the index is the play button's or a
\* navigation, never a timeout scheduled before the navigation (a delayed H-key
\* start or an auto-advance).
C15_QuietAfterNav ==
  [][(NavRan /\ (isPlaying' \/ NumPlaying' > 0 \/ currentIndex' # currentIndex))
       => lastOp'.op \in {"startAutoPlay", "goToPrevious", "goToNext"}]_vars

\* Every item of the batch has status ready.
EveryItemReady == \A i \in 1..Length : audioItems[i].status = "done"

\* C16: startAutoPlay() enables auto-advance and starts playback only if every item
\* of the batch is ready: after a run of startAutoPlay (play button or H key's
\* timeout) with an item pending, generating or failed, auto-advance is not enabled
\* and nothing plays.
C16_StartNeedsAllReady ==
  (lastOp.op \in PlayRequest /\ ~EveryItemReady)
    => ~autoPlayMode /\ ~isPlaying /\ NumPlaying = 0

\* generateAllAudio has stored the result of item i (0-based): the loop is past it.
Completed(i) == quizData /\ HasItem(i) /\ (genI = -1 \/ i < genI)

AllClips(it) ==
  it.questionAudio # NULL /\ it.answerAudio # NULL /\ it.detailsAudio # NULL

\* The step stores the three fetch results of item genI.
StoreStep == genI >= 0 /\ Len(genBlobs) = 2 /\ genBlobs' = <<>>

\* C17: in every state of the clip store an item is ready iff its generation has
\* completed and its three clips are all non-null, and a completed item with a null
\* clip is failed; the clips stored are the three fetch results, so an item one of
\* whose fetches returned null is stored as failed.
C17_ReadyIffAllClips ==
  /\ [](\A i \in 0..(Length - 1) :
          /\ ItemAt(i).status = "done" <=> (Completed(i) /\ AllClips(ItemAt(i)))
          /\ (Completed(i) /\ ~AllClips(ItemAt(i))) => ItemAt(i).status = "error")
  /\ [][StoreStep =>
          LET it == audioItems'[genI + 1]
          IN  /\ it.questionAudio = genBlobs[1]
              /\ it.answerAudio = genBlobs[2]
              /\ it.status = "error" <=>
                   (NULL \in {genBlobs[1], genBlobs[2], it.detailsAudio})
              /\ it.status \in {"done", "error"}]_vars

\* Generation has ended with one item ready and one failed after a partial success
\* (its question clip was fetched, its details clip was not).
C17_Witness ==
  /\ Length = 2
  /\ genI = -1
  /\ audioItems[1].status = "done"
  /\ audioItems[2].status = "error"
  /\ audioItems[2].questionAudio = BLOB
  /\ audioItems[2].detailsAudio = NULL

\* A status change the pipeline's order allows.
StatusStep(a, b) ==
  \/ a = b
  \/ a = "pending" /\ b = "downloading"
  \/ a = "downloading" /\ b \in {"done", "error"}

\* C18: the status of every entry follows pending -> generating -> (ready | failed):
\* in every step each entry keeps its status or makes one of these moves (a new batch's
\* entries start pending, the first already marked generating by the same handler), so
\* generating is never skipped and a ready or failed entry never changes again.
C18_StatusOrder ==
  [][/\ Len(audioItems') >= Len(audioItems)
     /\ \A i \in 1..Len(audioItems') :
          IF i <= Len(audioItems)
          THEN StatusStep(audioItems[i].status, audioItems'[i].status)
          ELSE /\ audioItems'[i].status = (IF i = 1 THEN "downloading" ELSE "pending")
               /\ lastOp'.op = "parseJson"
     /\ \A i \in 1..Len(audioItems) :
          audioItems[i].status \in {"done", "error"} => audioItems'[i] = audioItems[i]
    ]_vars

\* The first entry is ready and the second is being generated.
C18_Witness ==
  /\ Length = 2
  /\ audioItems[1].status = "done"
  /\ audioItems[2].status = "downloading"
  /\ lastOp.op = "fetchAudioForText"
  /\ Len(genBlobs) = 1

\* generateAllAudio has run to its end and every entry is ready or failed.
GenDone ==
  /\ quizData
  /\ genI = -1
  /\ ~isGenerating
  /\ allReady
  /\ \A i \in 1..Length : audioItems[i].status \in {"done", "error"}

\* C19: a failure does not stop the pipeline: whatever the three results of an item
\* are, the storing step goes on to the next item (or ends after the last), and for
\* every batch and every pattern of results the loop terminates with every entry
\* ready or failed, and stays so (fairness: every fetch settles).
C19_GenerationTerminates ==
  /\ [][StoreStep => /\ genI' = (IF genI + 1 < Length THEN genI + 1 ELSE -1)
                     /\ audioItems'[genI + 1].status \in {"done", "error"}]_vars
  /\ quizData ~> GenDone
  /\ [][GenDone => GenDone']_vars

\* Generation has ended although the first item failed: the second one is ready.
C19_Witness ==
  /\ GenDone
  /\ Length = 2
  /\ audioItems[1].status = "error"
  /\ audioItems[2].status = "done"

RECURSIVE PayloadBytes(_)
\* The sum of the sample bytes of the clips in list `blobs`.
PayloadBytes(blobs) ==
  IF blobs = <<>> THEN Num(0)
  ELSE Plus(blobs[1].body[1].pcm.byteLength, PayloadBytes(Tail(blobs)))

\* The clips the merge is given, in order, and the sum of their payload lengths.
MergeList == audiosOf(completed(audioItems))
totalSize == PayloadBytes(MergeList)

\* The merge has just handed a file to the browser.
Merged == lastOp.op = "mergeAndDownloadAll" /\ download # NoFile

\* C20: for any non-empty list of clip payloads the merged container is exactly
\* 44 + totalSize bytes long, its data-size field (bytes 40-43) holds totalSize and
\* its RIFF size field (bytes 4-7) holds 36 + totalSize.
C20_MergedSizes ==
  Merged => /\ download.byteLength = Plus(Num(44), totalSize)
            /\ download.dataSize = totalSize
            /\ download.riffSize = Plus(Num(36), totalSize)

----------------------------------------------------------------------------
\* The format fields of a 44-byte header agree with each other: the byte rate is
\* sample rate x channels x bytes per sample, the block align channels x bytes per
\* sample.
RatesAgree(h) ==
  /\ h.blockAlign = Num(h.numChannels.lo * (h.bitsPerSample.lo \div 8))
  /\ h.byteRate = Times(Times(h.sampleRate, h.numChannels.lo), h.bitsPerSample.lo \div 8)
  /\ h.byteRate = Times(h.sampleRate, h.blockAlign.lo)

\* C21: the byte-rate field of the merged container equals sample rate x channels
\* x (bits per sample / 8) and its block-align field channels x (bits per sample
\* / 8), for the sample rate, channel count and sample width written in the same
\* header, which are those of the first merged clip.
C21_HeaderRatesAgree ==
  Merged =>
    /\ RatesAgree(download)
    /\ download.sampleRate = MergeList[1].sampleRate
    /\ download.byteRate = Times(MergeList[1].sampleRate, 2)
    /\ download.blockAlign = Num(2)

\* A merge of clips of two sample rates, the first at 48000 Hz.
C21_Witness ==
  /\ Merged
  /\ download.sampleRate = Num(48000)
  /\ \E k \in 1..Len(MergeList) : MergeList[k].sampleRate = Num(24000)
----------------------------------------------------------------------------
\* The place of a clip in list order: items ascending, within one item question,
\* answer, details.
ClipRank(id) ==
  3 * id[1] + (CASE id[2] = "question" -> 0 [] id[2] = "answer" -> 1 [] OTHER -> 2)

\* C22: the payload of the merged container is the concatenation of the clips'
\* payloads in list order: the payload of clip k lies at 44 plus the lengths of
\* the payloads before it, each payload starts where the one before ends, the
\* last ends at the end of the container, and the clips follow each other by
\* item, then question, answer, details.
C22_PayloadInListOrder ==
  Merged =>
    LET b == download.body
        n == Len(b)
    IN  /\ n = Len(MergeList)
        /\ b[1].offset = Num(44)
        /\ \A k \in 1..n :
             /\ b[k].pcm = MergeList[k].body[1].pcm
             /\ b[k].offset = Plus(Num(44), PayloadBytes(SubSeq(MergeList, 1, k - 1)))
        /\ \A k \in 1..(n - 1) :
             /\ b[k + 1].offset = Plus(b[k].offset, b[k].pcm.byteLength)
             /\ ClipRank(b[k].pcm.id) < ClipRank(b[k + 1].pcm.id)
        /\ Plus(b[n].offset, b[n].pcm.byteLength) = download.byteLength

\* A merge of the six clips of two items, the first two of different lengths.
C22_Witness ==
  /\ Merged
  /\ Len(download.body) = 6
  /\ download.body[1].pcm.byteLength # download.body[2].pcm.byteLength
  /\ download.body[4].pcm.id = <<1, "question">>
----------------------------------------------------------------------------
ClipNames == {"question", "answer", "details"}

\* The clips of the ready items, and the items that failed.
ReadyClipIds ==
  {<<i - 1, c>> : i \in {j \in 1..Length : audioItems[j].status = "done"}, c \in ClipNames}
FailedItems == {i \in 1..Length : audioItems[i].status = "error"}

\* The payload bytes of a stored clip, none for a missing one.
ClipBytes(b) == IF b = NULL THEN Num(0) ELSE b.body[1].pcm.byteLength

\* The payload bytes of the three clips of the ready items among the first n.
RECURSIVE ReadyBytes(_)
ReadyBytes(n) ==
  IF n = 0 THEN Num(0)
  ELSE LET a == audioItems[n]
       IN  IF a.status = "done"
           THEN Plus(ReadyBytes(n - 1),
                     Plus(ClipBytes(a.questionAudio),
                          Plus(ClipBytes(a.answerAudio), ClipBytes(a.detailsAudio))))
           ELSE ReadyBytes(n - 1)

\* C23: the merged container holds exactly the clips of the ready items, each
\* once, and no clip of a failed item, not even one that was generated; its
\* payload is as long as the question, answer and details clips of the ready
\* items together.
C23_ExactlyReadyClips ==
  Merged =>
    LET b == download.body
    IN  /\ {b[k].pcm.id : k \in 1..Len(b)} = ReadyClipIds
        /\ Len(b) = Cardinality(ReadyClipIds)
        /\ \A k \in 1..Len(b) : b[k].pcm.id[1] + 1 \notin FailedItems
        /\ download.byteLength = Plus(Num(44), ReadyBytes(Length))

\* A merge of a batch whose first item failed on its answer alone, its question
\* and details clips being stored, and whose second item is ready.
C23_Witness ==
  /\ Merged
  /\ Length = 2
  /\ audioItems[1].status = "error"
  /\ audioItems[1].questionAudio # NULL
  /\ audioItems[1].answerAudio = NULL
  /\ audioItems[1].detailsAudio # NULL
  /\ audioItems[2].status = "done"
----------------------------------------------------------------------------
\* No item of the store is ready with a question clip.
NothingToExport ==
  \A i \in 1..Length :
    audioItems[i].status # "done" \/ audioItems[i].questionAudio = NULL

MergeRan == lastOp.op = "mergeAndDownloadAll"

\* C24: when no item is ready with a question clip, mergeAndDownloadAll ends with
\* the notice "No audio to download" and hands no file to the browser; a file it
\* does hand over was assembled from at least one clip.
C24_NothingToExport ==
  /\ MergeRan /\ NothingToExport => toast = "No audio to download" /\ download = NoFile
  /\ download # NoFile => ~NothingToExport /\ Len(download.body) >= 1

\* The handler has run on a store whose only item failed with its question clip
\* stored.
C24_Witness ==
  /\ MergeRan
  /\ NothingToExport
  /\ \E i \in 1..Length : audioItems[i].questionAudio # NULL
  /\ toast = "No audio to download"
----------------------------------------------------------------------------
\* The handlers of the pipeline (parseJson starts generateAllAudio, each settled
\* fetch continues it); every other handler but the export is the sequencer's.
PipelineOps == {"parseJson", "fetchAudioForText"}
SequencerOps == {"startAutoPlay", "keyTimeout", "handleKeyDown", "stopPlayback",
                 "goToPrevious", "goToNext", "advanceTimeout", "onended"}

\* C25: no operation of the sequencer changes the status or a clip of an entry of
\* the store: a step that changes the store is a step of the pipeline, and the
\* step of any other handler leaves every entry as it was.
C25_OnlyPipelineWritesClips ==
  [][/\ audioItems' # audioItems => lastOp'.op \in PipelineOps /\ showFooter' = showFooter
     /\ lastOp'.op \in SequencerOps => audioItems' = audioItems]_vars

\* The question clip of a ready item has been played to its end, the item is still
\* ready with its three clips.
C25_Witness ==
  /\ lastOp.op = "onended" /\ lastOp.clip = "question"
  /\ lastOp.idx + 1 \in 1..Length
  /\ audioItems[lastOp.idx + 1].status = "done"
  /\ audioItems[lastOp.idx + 1].questionAudio # NULL
----------------------------------------------------------------------------
\* The step of the handler mergeAndDownloadAll.
MergeStep == lastOp'.op = "mergeAndDownloadAll" /\ showFooter' = showFooter

\* C26: mergeAndDownloadAll changes none of its inputs: after the export every
\* entry of the store has the status and the three clips, byte for byte, it had
\* before, and the playback session (index, phase, playing flag, auto-advance,
\* audio elements, pending timeouts) is as it was.
C26_MergeLeavesInputs ==
  [][MergeStep =>
       /\ audioItems' = audioItems
       /\ session' = session
       /\ timeouts' = timeouts
       /\ allReady' = allReady /\ isGenerating' = isGenerating]_vars

\* A file has been exported while a clip is playing, from a store with a failed
\* item.
C26_Witness ==
  /\ MergeRan /\ download # NoFile
  /\ isPlaying /\ audioRef.st = "playing"
  /\ \E i \in 1..Length : audioItems[i].status = "error"
----------------------------------------------------------------------------
Generating == {i \in 1..Length : audioItems[i].status = "downloading"}
Settled(items, i) == items[i].status \in {"done", "error"}

\* C27: the pipeline works on the items in index order, one at a time: in every
\* state at most one item is generating and every item before a generating,
\* ready or failed one is ready or failed; and in the step in which an item enters
\* generating every item before it is ready or failed.
C27_OneItemInOrder ==
  /\ [](/\ Cardinality(Generating) <= 1
        /\ \A i \in 1..Length :
             audioItems[i].status # "pending" => \A j \in 1..(i - 1) : Settled(audioItems, j))
  /\ [][\A i \in 1..Len(audioItems') :
          /\ audioItems'[i].status = "downloading"
          /\ (i \in 1..Length => audioItems[i].status # "downloading")
          => \A j \in 1..(i - 1) : Settled(audioItems', j)]_vars

\* The last item is generating after the item before it has failed.
C27_Witness ==
  /\ Length >= 2
  /\ audioItems[Length].status = "downloading"
  /\ audioItems[Length - 1].status = "error"
  /\ genI = Length - 1
----------------------------------------------------------------------------
\* The export has run on a store of one item with one clip.
MergedOneClip ==
  /\ Merged
  /\ Length = 1
  /\ audioItems[1].answerAudio = NULL /\ audioItems[1].detailsAudio = NULL

\* C28: a payload wrapped by pcmToWav and then merged alone gives back the clip:
\* the merged container is the clip's container, byte for byte (the same length,
\* the same 44 header bytes field by field, the same payload at byte 44).
C28_SingleClipRoundTrip ==
  MergedOneClip =>
    /\ download = audioItems[1].questionAudio
    /\ download = pcmToWav(download.body[1].pcm, download.sampleRate)

\* The one clip merged is 65536 bytes of samples at 44100 Hz.
C28_Witness ==
  /\ MergedOneClip
  /\ audioItems[1].questionAudio.sampleRate = Num(44100)
  /\ audioItems[1].questionAudio.dataSize = Num(65536)
----------------------------------------------------------------------------
\* C29: in every state with a loaded batch of N >= 1 items the current index is
\* one of 0..N-1.
C29_IndexInRange ==
  quizData /\ Length >= 1 => currentIndex \in 0..(Length - 1)

\* The index is at the last of at least two items, moved there by the next button
\* or by an auto-advance.
C29_Witness ==
  /\ quizData /\ Length >= 2
  /\ currentIndex = Length - 1
  /\ lastOp.op \in {"goToNext", "advanceTimeout"}
----------------------------------------------------------------------------
\* C30: in every state the playing flag is true iff an audio element of the
\* session is playing (created, and neither ended, paused nor dropped): the flag
\* is true exactly when the element audioRef refers to plays, and no element
\* plays besides that one.
C30_PlayingIffElementPlays ==
  /\ isPlaying <=> audioRef.st = "playing"
  /\ NumPlaying = IF isPlaying THEN 1 ELSE 0

\* Between two items of an auto-play run: the details of an item have ended, the
\* advance is pending, the flag is false and the last element has ended.
C30_Witness ==
  /\ lastOp.op = "onended" /\ lastOp.clip = "details"
  /\ AdvancePending
  /\ ~isPlaying
  /\ audioRef.st = "ended"
----------------------------------------------------------------------------
\* The item carries its three clips.
ThreeClips(item) ==
  item.questionAudio # NULL /\ item.answerAudio # NULL /\ item.detailsAudio # NULL

\* The last handler started the playback of an item: playQuestionAtIndex, or the
\* timeout of an auto-advance.
ItemStarted ==
  /\ \/ PlayStarted
     \/ lastOp.op = "advanceTimeout" /\ toast = ""
  /\ audioRef.st = "playing" /\ audioRef.clip = "question"

\* C31: an item whose playback is started has its three clips: every element
\* ever created plays a clip of an item with three clips, so the callbacks never
\* take a skip branch: the end of a question clip starts the answer clip in phase
\* answer, the end of an answer clip starts the details clip in phase details.
C31_StartedItemHasThreeClips ==
  /\ ItemStarted => ThreeClips(audioRef.item) /\ ThreeClips(ItemAt(currentIndex))
  /\ audioRef.st # "null" => ThreeClips(audioRef.item)
  /\ \A k \in 1..Len(detached) : ThreeClips(detached[k].item)
  /\ lastOp.op = "onended" /\ lastOp.clip = "question" =>
       phaseLog = <<"answer">> /\ audioRef.clip = "answer" /\ audioRef.st = "playing"
  /\ lastOp.op = "onended" /\ lastOp.clip = "answer" =>
       phaseLog = <<"details">> /\ audioRef.clip = "details" /\ audioRef.st = "playing"

\* An item has been started by playQuestionAtIndex in a batch that also holds a
\* failed item with its question clip stored.
C31_Witness ==
  /\ ItemStarted
  /\ PlayStarted
  /\ \E i \in 1..Length : audioItems[i].status = "error" /\ audioItems[i].questionAudio # NULL
----------------------------------------------------------------------------
\* The step of an advance timeout that finds its item, lastOp'.idx + 1, not ready.
AdvanceRefused ==
  /\ lastOp'.op = "advanceTimeout"
  /\ toast' = "Audio not ready yet"
  /\ showFooter' = showFooter

\* C32: when the timeout of the auto-advance from item i fires and item i+1 is not
\* ready, no audio element is created, auto-advance is disabled, and afterwards
\* the current index is i and the playing flag is false.
C32_RefusedAdvanceStaysIdle ==
  [][AdvanceRefused =>
       /\ audioRef' = audioRef /\ detached' = detached
       /\ ~autoPlayMode'
       /\ currentIndex' = lastOp'.idx
       /\ ~isPlaying']_vars
----------------------------------------------------------------------------
\* The first clip of the merge list: the question clip of the first ready item.
FirstReady == CHOOSE i \in 1..Length :
                /\ audioItems[i].status = "done"
                /\ \A j \in 1..(i - 1) : audioItems[j].status # "done"
FirstClip == audioItems[FirstReady].questionAudio

\* C33: the sample-rate, channel-count and bits-per-sample fields of the merged
\* container are those of the header of the first clip of the merge list, whatever
\* the headers of the clips after it declare.
C33_FormatOfFirstClip ==
  Merged =>
    /\ download.sampleRate = FirstClip.sampleRate
    /\ download.numChannels = FirstClip.numChannels
    /\ download.bitsPerSample = FirstClip.bitsPerSample

\* Two ready items have been merged, the clips of the first at 24000 Hz, those of
\* the second at 48000 Hz.
C33_Witness ==
  /\ Merged
  /\ Length = 2
  /\ audioItems[1].status = "done" /\ audioItems[2].status = "done"
  /\ audioItems[1].questionAudio.sampleRate = Num(24000)
  /\ audioItems[2].detailsAudio.sampleRate = Num(48000)
----------------------------------------------------------------------------
\* The step of the pause button's stopPlayback.
StopStep == lastOp'.op = "stopPlayback" /\ showFooter' = showFooter

\* C34: stopPlayback() changes nothing but the playing flag, the auto-advance flag
\* and the audio handle: run on any reachable state it returns the session with
\* at most these three fields changed, and the stop of the pause button leaves
\* the current index, the phase and the clip store as they were.
C34_StopFrame ==
  /\ [](LET s == stopPlayback(Cur)
        IN  [s EXCEPT !.isPlaying = isPlaying, !.autoPlayMode = autoPlayMode,
                      !.audioRef = audioRef] = Cur)
  /\ [][StopStep =>
          /\ currentIndex' = currentIndex
          /\ displayPhase' = displayPhase
          /\ phaseLog' = <<>>
          /\ audioItems' = audioItems
          /\ allReady' = allReady /\ isGenerating' = isGenerating]_vars

\* The pause button has stopped the second item in its answer phase.
C34_Witness ==
  /\ lastOp.op = "stopPlayback"
  /\ currentIndex = 1
  /\ displayPhase = "answer"
  /\ ~isPlaying /\ audioRef = NoAudio
----------------------------------------------------------------------------
\* The generation loop has not yet stored its last item.
LoopRunning == genI >= 0

\* C35: allReady true implies that no item is pending or generating: every item
\* is ready or failed; allReady is false before a batch is loaded and from the
\* load until the loop has stored the last item, and it becomes true in the step
\* that stores the last item (at the load itself for a batch of no items).
C35_AllReadyAfterLoop ==
  /\ [](/\ allReady => \A i \in 1..Length : Settled(audioItems, i)
        /\ allReady <=> quizData /\ ~LoopRunning
        /\ LoopRunning => isGenerating /\ audioItems[Length].status \in {"pending", "downloading"})
  /\ [][~allReady /\ allReady' =>
          \/ lastOp'.op = "fetchAudioForText" /\ genI = Length - 1 /\ StoreStep
          \/ lastOp'.op = "parseJson" /\ Len(audioItems') = 0]_vars

\* The loop has just stored the last of two items, one ready and one failed, and
\* allReady is true.
C35_Witness ==
  /\ allReady
  /\ lastOp.op = "fetchAudioForText" /\ lastOp.idx = 1
  /\ Length = 2
  /\ audioItems[1].status = "done" /\ audioItems[2].status = "error"
  /\ toast = "All audio ready! Press H to start."
====
